---------------------------- MODULE Spec2Model ----------------------------
(***************************************************************************)
(* Model of the THOR Lite worker task (src/src/tasks.py): archive-safe     *)
(* extraction, rule-bundle fetch and flatten, workspace preparation,       *)
(* supervision of the scanner process with log tailing, and the            *)
(* classification of the result.                                           *)
(*                                                                         *)
(* Strings are sequences of one-character strings, so that startswith,     *)
(* endswith, split, join and normpath are computed as Python computes      *)
(* them.  The empty string is << >>.                                       *)
(***************************************************************************)
EXTENDS Integers, Sequences, FiniteSets, TLC

(***************************************************************************)
(* Bounds of the model.                                                    *)
(***************************************************************************)
MaxMembers == 2
MaxFlattenRuns == 3
MaxInputs == 2
MaxRunLines == 2
MaxTailWrites == 4
MaxSegments == 3

\* The capacity of a capture pipe and the most a scanner writes to one
\* stream, in units of output.
PipeCapacity == 2

MaxOutput == 3

(***************************************************************************)
(* String and path primitives (Python str / os.path on POSIX).             *)
(***************************************************************************)
SEP == "/"

StartsWith(s, p) == Len(p) <= Len(s) /\ SubSeq(s, 1, Len(p)) = p

EndsWith(s, p) ==
    Len(p) <= Len(s) /\ SubSeq(s, Len(s) - Len(p) + 1, Len(s)) = p

RECURSIVE SplitFrom(_, _, _)
SplitFrom(s, sep, cur) ==
    IF s = << >> THEN << cur >>
    ELSE IF Head(s) = sep
         THEN << cur >> \o SplitFrom(Tail(s), sep, << >>)
         ELSE SplitFrom(Tail(s), sep, Append(cur, Head(s)))

\* str.split(sep) for a one-character separator.
Split(s, sep) == SplitFrom(s, sep, << >>)

RECURSIVE Join(_, _)
\* sep.join(comps)
Join(comps, sep) ==
    IF comps = << >> THEN << >>
    ELSE IF Len(comps) = 1 THEN comps[1]
         ELSE comps[1] \o << sep >> \o Join(Tail(comps), sep)

DOT == << "." >>
DOTDOT == << ".", "." >>

\* posixpath.normpath: the number of leading slashes it keeps (0, 1 or 2).
InitialSlashes(path) ==
    IF ~StartsWith(path, << SEP >>) THEN 0
    ELSE IF StartsWith(path, << SEP, SEP >>) /\ ~StartsWith(path, << SEP, SEP, SEP >>)
         THEN 2
         ELSE 1

RECURSIVE NormComps(_, _, _)
\* posixpath.normpath: the loop over the components.
NormComps(comps, initial, new) ==
    IF comps = << >> THEN new
    ELSE LET comp == Head(comps)
             rest == Tail(comps)
         IN  IF comp = << >> \/ comp = DOT
             THEN NormComps(rest, initial, new)
             ELSE IF \/ comp # DOTDOT
                     \/ (initial = 0 /\ new = << >>)
                     \/ (new # << >> /\ new[Len(new)] = DOTDOT)
                  THEN NormComps(rest, initial, Append(new, comp))
                  ELSE IF new # << >>
                       THEN NormComps(rest, initial, SubSeq(new, 1, Len(new) - 1))
                       ELSE NormComps(rest, initial, new)

\* posixpath.normpath
NormPath(path) ==
    IF path = << >> THEN DOT
    ELSE LET initial == InitialSlashes(path)
             body == Join(NormComps(Split(path, SEP), initial, << >>), SEP)
             lead == IF initial = 0 THEN << >>
                     ELSE IF initial = 1 THEN << SEP >> ELSE << SEP, SEP >>
             res == lead \o body
         IN  IF res = << >> THEN DOT ELSE res

\* posixpath.join(a, b)
PathJoin(a, b) ==
    IF StartsWith(b, << SEP >>) THEN b
    ELSE IF a = << >> \/ EndsWith(a, << SEP >>) THEN a \o b
         ELSE a \o << SEP >> \o b

\* os.path.abspath of a path that is already absolute (every path the task
\* passes is: it is built from a TemporaryDirectory or a fixed constant).
AbsPath(path) == NormPath(path)

(***************************************************************************)
(* zipfile.ZipFile.extractall: each member is written below the target     *)
(* under its name with the empty, "." and ".." components dropped; a name  *)
(* ending in "/" is a directory entry.  An extracted entry is recorded by  *)
(* its name relative to the target.                                        *)
(***************************************************************************)
ValidPathPart(x) == x # << >> /\ x # DOT /\ x # DOTDOT

SanitizeArcname(member) == Join(SelectSeq(Split(member, SEP), ValidPathPart), SEP)

IsDirMember(member) == EndsWith(member, << SEP >>)

ExtractAll(names) ==
    { [name |-> SanitizeArcname(names[i]), dir |-> IsDirMember(names[i])] :
        i \in DOMAIN names }

\* Absolute path at which an extracted entry lands.
TargetPath(dest, entry) == NormPath(PathJoin(dest, entry.name))

(***************************************************************************)
(* _safe_extract_zip                                                       *)
(***************************************************************************)
\* member_path of line 117
MemberPath(destination, member) == AbsPath(PathJoin(destination, member))

\* The check of line 118 without the separator bound.
MemberEscapesUnbounded(destination, member) ==
    LET member_path == MemberPath(destination, member)
    IN  ~StartsWith(member_path, destination) /\ member_path # destination

\* The check of line 118: TRUE when the member is refused.
MemberEscapes(destination, member) ==
    LET member_path == MemberPath(destination, member)
    IN  ~StartsWith(member_path, destination \o << SEP >>) /\ member_path # destination

\* Result of _safe_extract_zip(zip_file, destination): raised is TRUE when
\* the ValueError of line 119 is raised, entries is what extractall wrote.
_safe_extract_zip(names, dest) ==
    LET destination == AbsPath(dest)
    IN  IF \E i \in DOMAIN names : MemberEscapes(destination, names[i])
        THEN [raised |-> TRUE, entries |-> {}]
        ELSE [raised |-> FALSE, entries |-> ExtractAll(names)]


\* temp_dir/extract of line 309
ExtractDir == << "/", "t", "/", "e" >>

(***************************************************************************)
(* Rule bundle manager: names.                                             *)
(***************************************************************************)
CUSTOM_YARA_DIRS ==
    { "/thor-lite/signatures/custom/yara", "/thor-lite/custom-signatures/yara" }

CUSTOM_YARA_CLEAN_DIRS ==
    { "/thor-lite/signatures/custom", "/thor-lite/custom-signatures" }
        \cup CUSTOM_YARA_DIRS

YARA_FORGE_PREFIX == << "y", "a", "r", "a", "_", "f", "o", "r", "g", "e", "_" >>

UpperLetters ==
    << "A", "B", "C", "D", "E", "F", "G", "H", "I", "J", "K", "L", "M",
       "N", "O", "P", "Q", "R", "S", "T", "U", "V", "W", "X", "Y", "Z" >>

LowerLetters ==
    << "a", "b", "c", "d", "e", "f", "g", "h", "i", "j", "k", "l", "m",
       "n", "o", "p", "q", "r", "s", "t", "u", "v", "w", "x", "y", "z" >>

UpperSet == { UpperLetters[i] : i \in DOMAIN UpperLetters }

LowerOf ==
    [u \in UpperSet |-> LowerLetters[CHOOSE i \in DOMAIN UpperLetters : UpperLetters[i] = u]]

LowerChar(c) == IF c \in UpperSet THEN LowerOf[c] ELSE c

\* str.lower
Lower(s) == [i \in DOMAIN s |-> LowerChar(s[i])]

\* os.path.basename
Basename(path) == LET comps == Split(path, SEP) IN comps[Len(comps)]

\* _is_yara_file
_is_yara_file(filename) ==
    \/ EndsWith(Lower(filename), << ".", "y", "a", "r" >>)
    \/ EndsWith(Lower(filename), << ".", "y", "a", "r", "a" >>)

\* Relative paths of the files a bundle may hold.
RulePathA == << "r", "/", "a", ".", "y", "a", "r" >>              \* r/a.yar
RulePathSA == << "s", "/", "a", ".", "y", "a", "r" >>             \* s/a.yar
RulePathB == << "r", "/", "B", ".", "Y", "A", "R", "A" >>         \* r/B.YARA
RulePathN == << "r", "/", "n", ".", "t", "x", "t" >>              \* r/n.txt
RulePathZ == << "o", "/", "z", ".", "y", "a", "r" >>              \* o/z.yar (an older bundle)
\* Two paths on which SHA-1 agrees in its first twelve hexadecimal digits.
RulePathC1 ==
    << "d", "4", "6", "6", "d", "f", "0", "/", "a", ".", "y", "a", "r" >>  \* d466df0/a.yar
RulePathC2 ==
    << "d", "1", "3", "6", "1", "c", "6", "f", "/", "a", ".", "y", "a", "r" >>

BundlePaths == { RulePathA, RulePathSA, RulePathB, RulePathN }

\* hashlib.sha1(rel_path.encode("utf-8")).hexdigest()[:12], the values SHA-1
\* has on these paths.
Sha1Hex12(rel_path) ==
    CASE rel_path = RulePathA ->
           << "7", "6", "9", "9", "9", "e", "9", "1", "8", "1", "5", "d" >>
      [] rel_path = RulePathSA ->
           << "3", "6", "2", "e", "f", "b", "f", "f", "b", "5", "6", "4" >>
      [] rel_path = RulePathB ->
           << "1", "c", "5", "8", "b", "7", "1", "2", "2", "d", "6", "2" >>
      [] rel_path = RulePathN ->
           << "9", "f", "3", "2", "c", "3", "2", "6", "b", "1", "2", "0" >>
      [] rel_path = RulePathZ ->
           << "8", "e", "a", "1", "2", "8", "d", "3", "2", "d", "2", "6" >>
      [] rel_path = RulePathC1 ->
           << "f", "0", "6", "5", "5", "8", "b", "b", "c", "7", "c", "3" >>
      [] rel_path = RulePathC2 ->
           << "f", "0", "6", "5", "5", "8", "b", "b", "c", "7", "c", "3" >>

\* dest_name of line 139
DestName(rel_path) ==
    YARA_FORGE_PREFIX \o Sha1Hex12(rel_path) \o << "_" >> \o Basename(rel_path)

\* A rule file of the operator's own, which flatten must leave alone.
UserRuleName == << "m", "y", ".", "y", "a", "r" >>

\* The bundle directory: absent, or the relative paths of the files in its tree.
NoBundle == [exists |-> FALSE, files |-> {}]

Bundle(files) == [exists |-> TRUE, files |-> files]

(***************************************************************************)
(* _flatten_yara_forge_rules.  forge is the bundle directory, dirs maps    *)
(* each custom-rule directory to the names of the files in it.  The result *)
(* is the directories afterwards and the returned count.                   *)
(***************************************************************************)
\* file_entries of lines 131-140, as the set of (source_path, dest_name).
FileEntries(forge) ==
    { [source_path |-> f, dest_name |-> DestName(f)] :
        f \in { g \in forge.files : _is_yara_file(Basename(g)) } }

\* Lines 142-146: one directory after the removal loop.
CleanDir(names) ==
    { n \in names : ~(StartsWith(n, YARA_FORGE_PREFIX) /\ _is_yara_file(n)) }

\* A flatten that copies only the entries whose dest_name was not in the
\* directory when the run began.
flatten_skip_existing(forge, dirs) ==
    IF ~forge.exists THEN [dirs |-> dirs, count |-> 0]
    ELSE LET entries == FileEntries(forge)
         IN  [dirs |->
                [d \in CUSTOM_YARA_CLEAN_DIRS |->
                    IF d \in CUSTOM_YARA_DIRS
                    THEN CleanDir(dirs[d]) \cup
                           { e.dest_name : e \in { x \in entries : x.dest_name \notin dirs[d] } }
                    ELSE CleanDir(dirs[d])],
              count |-> Cardinality(entries)]

_flatten_yara_forge_rules(forge, dirs) ==
    IF ~forge.exists THEN [dirs |-> dirs, count |-> 0]
    ELSE LET entries == FileEntries(forge)
         IN  [dirs |->
                [d \in CUSTOM_YARA_CLEAN_DIRS |->
                    IF d \in CUSTOM_YARA_DIRS
                    THEN CleanDir(dirs[d]) \cup { e.dest_name : e \in entries }
                    ELSE CleanDir(dirs[d])],
              count |-> Cardinality(entries)]

(***************************************************************************)
(* _download_yara_forge.  response is what the fixed URL serves: a network *)
(* failure, bytes that are no zip archive, or a zip archive with the given *)
(* member names.  The result is the error raised ("none" when the fetch    *)
(* returns), the bundle directory and the custom-rule directories after.   *)
(***************************************************************************)
NetworkError == [kind |-> "network_error", names |-> << >>]

NotAZip == [kind |-> "not_a_zip", names |-> << >>]

Zip(names) == [kind |-> "zip", names |-> names]

\* The files of the tree shutil.move puts in place of the bundle directory.
ExtractedFiles(entries) == { e.name : e \in { x \in entries : ~x.dir } }

\* A fetch that removes the old bundle directory before it extracts.
download_remove_first(requested, response, forge, dirs) ==
    IF ~requested THEN [raised |-> "none", forge |-> forge, dirs |-> dirs, flattened |-> FALSE]
    ELSE IF response.kind = "network_error"
    THEN [raised |-> "download_failed", forge |-> forge, dirs |-> dirs, flattened |-> FALSE]
    ELSE LET ex == _safe_extract_zip(response.names, ExtractDir)
             new == Bundle(ExtractedFiles(ex.entries))
         IN  IF response.kind = "not_a_zip" \/ ex.raised
             THEN [raised |-> "extract_failed", forge |-> NoBundle, dirs |-> dirs,
                   flattened |-> FALSE]
             ELSE [raised |-> "none", forge |-> new,
                   dirs |-> _flatten_yara_forge_rules(new, dirs).dirs, flattened |-> TRUE]

_download_yara_forge(requested, response, forge, dirs) ==
    IF ~requested
    THEN \* lines 289-291
         [raised |-> "none", forge |-> forge, dirs |-> dirs, flattened |-> FALSE]
    ELSE IF response.kind = "network_error"
    THEN \* lines 301-307
         [raised |-> "download_failed", forge |-> forge, dirs |-> dirs, flattened |-> FALSE]
    ELSE LET ex == _safe_extract_zip(response.names, ExtractDir)
             new == Bundle(ExtractedFiles(ex.entries))
         IN  IF response.kind = "not_a_zip" \/ ex.raised
             THEN \* lines 309-315
                  [raised |-> "extract_failed", forge |-> forge, dirs |-> dirs,
                   flattened |-> FALSE]
             ELSE \* lines 317-321
                  [raised |-> "none", forge |-> new,
                   dirs |-> _flatten_yara_forge_rules(new, dirs).dirs, flattened |-> TRUE]

(***************************************************************************)
(* Inputs of the extractor: archives (the namelist of a zip file) over a   *)
(* small set of member names, and the directory _download_yara_forge       *)
(* extracts into (temp_dir/extract, line 309).                             *)
(***************************************************************************)
BoundedSeqs(S, n) == UNION { [1..k -> S] : k \in 0..n }

MemberNames ==
    { << "a" >>,                                  \* a
      << "s", "/", "a" >>,                        \* s/a
      << ".", "/" >>,                             \* ./   (the destination itself)
      << "s", "/", ".", ".", "/", "a" >>,         \* s/../a
      << ".", ".", "/", "x" >>,                   \* ../x
      << "/", "a" >>,                             \* /a   (absolute)
      << ".", ".", "/", "e", "2", "/", "f" >> }   \* ../e2/f (sibling of /t/e)

Archives == BoundedSeqs(MemberNames, MaxMembers)

(***************************************************************************)
(* Workspace preparation (thor, lines 435-464).  An input descriptor is    *)
(* its path (<< >> when the descriptor has none), whether the path exists, *)
(* whether zipfile.is_zipfile holds of it and, for an archive, its member  *)
(* names.  The workspace is the set of the entries of temp_dir: a hard     *)
(* link, or an extraction directory with what extractall wrote into it.    *)
(***************************************************************************)
DigitChars == << "0", "1", "2", "3", "4", "5", "6", "7", "8", "9" >>

\* str(idx) for the indices the bounded input lists have (idx < 10).
IntToStr(idx) == << DigitChars[idx + 1] >>

\* Index of the last "." of filename that has a character other than "."
\* before it, 0 when there is none (posixpath.splitext).
ExtDot(filename) ==
    LET dots == { i \in DOMAIN filename :
                    /\ filename[i] = "."
                    /\ \E j \in 1..(i - 1) : filename[j] # "." }
    IN  IF dots = {} THEN 0 ELSE CHOOSE i \in dots : \A j \in dots : j <= i

\* os.path.splitext(filename)[0]
SplitExtRoot(filename) ==
    IF ExtDot(filename) = 0 THEN filename ELSE SubSeq(filename, 1, ExtDot(filename) - 1)

\* extract_dir_name of line 451
ExtractDirName(idx, filename) ==
    << "z", "i", "p", "_" >> \o IntToStr(idx) \o << "_" >> \o
        (IF SplitExtRoot(filename) = << >>
         THEN << "a", "r", "c", "h", "i", "v", "e" >>
         ELSE SplitExtRoot(filename))

\* sum(1 for _ in os.scandir(extract_dir)): the entries directly in the
\* extraction directory.
TopLevelNames(inside) ==
    { Split(e.name, SEP)[1] : e \in { x \in inside : x.name # << >> } }

Link(name) == [name |-> name, kind |-> "link", inside |-> {}]

Dir(name, inside) == [name |-> name, kind |-> "dir", inside |-> inside]

NameTaken(entries, name) == \E e \in entries : e.name = name

RECURSIVE PrepareFrom(_, _, _, _)
\* The loop of lines 436-460 from input idx on, then the check of line 463.
PrepareFrom(input_files, idx, entries, prepared_count) ==
    IF idx > Len(input_files)
    THEN [raised |-> IF prepared_count = 0 THEN "no_inputs_prepared" ELSE "none",
          entries |-> entries, prepared_count |-> prepared_count]
    ELSE LET input_file == input_files[idx]
             path == input_file.path
             filename == Basename(path)
             extract_dir_name == ExtractDirName(idx, filename)
             inside == ExtractAll(input_file.members)
         IN  IF path = << >> \/ ~input_file.exists
             THEN \* line 439
                  [raised |-> "input_missing", entries |-> entries,
                   prepared_count |-> prepared_count]
             ELSE IF input_file.zip
             THEN IF \E e \in entries : e.name = extract_dir_name /\ e.kind = "link"
                  THEN \* os.makedirs(exist_ok=True) on the name of a file
                       [raised |-> "file_exists", entries |-> entries,
                        prepared_count |-> prepared_count]
                  ELSE \* lines 451-457
                       PrepareFrom(input_files, idx + 1,
                                   { e \in entries : e.name # extract_dir_name }
                                       \cup { Dir(extract_dir_name, inside) },
                                   prepared_count + Cardinality(TopLevelNames(inside)))
             ELSE IF NameTaken(entries, filename)
             THEN \* os.link on a name that exists
                  [raised |-> "file_exists", entries |-> entries,
                   prepared_count |-> prepared_count]
             ELSE \* lines 459-460
                  PrepareFrom(input_files, idx + 1, entries \cup { Link(filename) },
                              prepared_count + 1)

\* A preparation that passes over the inputs that are missing.
prepare_skip_missing(input_files) ==
    PrepareFrom(SelectSeq(input_files, LAMBDA f : f.path # << >> /\ f.exists), 1, {}, 0)

\* Lines 435-464 on an empty temp_dir.
PrepareWorkspace(input_files) == PrepareFrom(input_files, 1, {}, 0)

(***************************************************************************)
(* Log tailing.  The text log is absent or holds data.                     *)
(***************************************************************************)
NL == "\n"

NoLog == [exists |-> FALSE, data |-> << >>]

Whitespace == { " ", NL, "\t" }

RECURSIVE LStrip(_)
LStrip(s) == IF s # << >> /\ Head(s) \in Whitespace THEN LStrip(Tail(s)) ELSE s

RECURSIVE RStrip(_)
RStrip(s) ==
    IF s # << >> /\ s[Len(s)] \in Whitespace THEN RStrip(SubSeq(s, 1, Len(s) - 1)) ELSE s

\* str.strip
Strip(s) == RStrip(LStrip(s))

\* str.find + 1: the index at which the first occurrence of pat starts, 0
\* when there is none.
Find(s, pat) ==
    LET hits == { i \in 1..(Len(s) - Len(pat) + 1) : SubSeq(s, i, i + Len(pat) - 1) = pat }
    IN  IF hits = {} THEN 0 ELSE CHOOSE i \in hits : \A j \in hits : i <= j

Contains(s, pat) == Find(s, pat) # 0

\* s.split(pat, 1)[0]: the whole of s when pat does not occur in it.
Before(s, pat) == IF Find(s, pat) = 0 THEN s ELSE SubSeq(s, 1, Find(s, pat) - 1)

\* s.split(pat, 1)[1], for s that contains pat.

After(s, pat) == SubSeq(s, Find(s, pat) + Len(pat), Len(s))

RECURSIVE Count(_, _)
\* str.count: the occurrences of pat in s that do not overlap.
Count(s, pat) == IF ~Contains(s, pat) THEN 0 ELSE 1 + Count(After(s, pat), pat)

YaraRuleMarker == << "y", "a", "r", "a", " ", "r", "u", "l", "e" >>

\* A read that counts the marker in the whole file.
consume_from_start(log, offset) ==
    IF ~log.exists THEN [offset |-> offset, added_hits |-> 0]
    ELSE [offset |-> IF offset > Len(log.data) THEN offset ELSE Len(log.data),
          added_hits |-> Count(Lower(log.data), YaraRuleMarker)]

\* _consume_log_updates
_consume_log_updates(log, offset) ==
    IF ~log.exists
    THEN [offset |-> offset, added_hits |-> 0]
    ELSE LET data == SubSeq(log.data, offset + 1, Len(log.data))
             new_offset == IF offset > Len(log.data) THEN offset ELSE Len(log.data)
         IN  [offset |-> new_offset, added_hits |-> Count(Lower(data), YaraRuleMarker)]

MaxTailBytes == 4096

\* str.splitlines on "\n".
SplitLines(data) ==
    LET parts == Split(data, NL)
    IN  IF parts[Len(parts)] = << >> THEN SubSeq(parts, 1, Len(parts) - 1) ELSE parts

\* _tail_last_line: none is TRUE for None.
_tail_last_line(log) ==
    IF ~log.exists \/ Len(log.data) <= 0
    THEN [none |-> TRUE, line |-> << >>]
    ELSE LET size == Len(log.data)
             read_size == IF size < MaxTailBytes THEN size ELSE MaxTailBytes
             data == SubSeq(log.data, size - read_size + 1, size)
             lines == SplitLines(data)
             full == { i \in DOMAIN lines : Strip(lines[i]) # << >> }
         IN  IF full = {} THEN [none |-> TRUE, line |-> << >>]
             ELSE [none |-> FALSE,
                   line |-> Strip(lines[CHOOSE i \in full : \A j \in full : j <= i])]

(***************************************************************************)
(* _summarize_log_line: raised is TRUE when line 238 raises IndexError,    *)
(* none is TRUE for None.                                                  *)
(***************************************************************************)
MODULE_MARK == << "M", "O", "D", "U", "L", "E", ":" >>
MESSAGE_MARK == << "M", "E", "S", "S", "A", "G", "E", ":" >>
FILE_MARK == << "F", "I", "L", "E", ":" >>
SCANID_MARK == << "S", "C", "A", "N", "I", "D", ":" >>

\* s.split()[0] for s with a character that is no whitespace.
FirstWord(s) ==
    LET t == LStrip(s)
        ends == { i \in DOMAIN t : t[i] \in Whitespace }
    IN  IF ends = {} THEN t
        ELSE SubSeq(t, 1, (CHOOSE i \in ends : \A j \in ends : i <= j) - 1)

\* Lines 231-235
ModuleMessage(summary) ==
    IF Contains(summary, MODULE_MARK) /\ Contains(summary, MESSAGE_MARK)
    THEN Strip(Before(After(summary, MODULE_MARK), MESSAGE_MARK))
            \o << ":", " " >> \o Strip(After(summary, MESSAGE_MARK))
    ELSE summary

\* Lines 245-246
Truncate(summary, max_len) ==
    IF Len(summary) > max_len
    THEN RStrip(SubSeq(summary, 1, max_len - 3)) \o << ".", ".", "." >>
    ELSE summary

_summarize_log_line(tail, max_len) ==
    IF tail.none \/ tail.line = << >>
    THEN [raised |-> FALSE, none |-> TRUE, summary |-> << >>]
    ELSE LET summary == ModuleMessage(Strip(tail.line))
         IN  IF Contains(summary, FILE_MARK)
             THEN LET prefix == Before(summary, FILE_MARK)
                      file_part == After(summary, FILE_MARK)
                      cut == IF Contains(prefix, SCANID_MARK)
                             THEN Before(prefix, SCANID_MARK) ELSE prefix
                  IN  IF Strip(file_part) = << >>
                      THEN [raised |-> TRUE, none |-> FALSE, summary |-> << >>]
                      ELSE [raised |-> FALSE, none |-> FALSE,
                            summary |->
                              Truncate(Strip(Strip(cut) \o << " " >> \o FILE_MARK \o << " " >>
                                               \o Basename(FirstWord(Strip(file_part)))),
                                       max_len)]
             ELSE IF Contains(summary, SCANID_MARK)
             THEN [raised |-> FALSE, none |-> FALSE,
                   summary |-> Truncate(Strip(Before(summary, SCANID_MARK)), max_len)]
             ELSE [raised |-> FALSE, none |-> FALSE, summary |-> Truncate(summary, max_len)]

MaxSummaryLen == 120

\* Log lines: up to MaxSegments pieces of scanner output in any order, among
\* them every marker, the file marker with nothing after it, and a run of
\* words longer than the cap.
LongWords == [i \in 1..(MaxSummaryLen + 15) |-> IF i % 3 = 0 THEN " " ELSE "a"]

LineSegments ==
    { MODULE_MARK \o << " ", "m", " " >>,
      MESSAGE_MARK \o << " ", "h", "i", " " >>,
      FILE_MARK,
      << " ", "/", "p", "/", "q", " " >>,
      SCANID_MARK \o << " ", "1", " " >>,
      LongWords }

RECURSIVE Concat(_)
Concat(pieces) == IF pieces = << >> THEN << >> ELSE Head(pieces) \o Concat(Tail(pieces))

LogLines == { Concat(pieces) : pieces \in BoundedSeqs(LineSegments, MaxSegments) }

NoLine == [none |-> TRUE, line |-> << >>]

NotSummarized == [done |-> FALSE, raised |-> FALSE, none |-> TRUE, summary |-> << >>]

(***************************************************************************)
(* Result collection (thor, lines 520-559).  An output artifact is absent  *)
(* or has a size.                                                          *)
(***************************************************************************)
NoFile == [exists |-> FALSE, size |-> 0]

File(size) == [exists |-> TRUE, size |-> size]

\* Lines 522-524: the artifacts of the result, in the order html, json, txt.
OutputFiles(html, json, txt) ==
    SelectSeq(<< [name |-> "html_report", file |-> html],
                 [name |-> "json_log", file |-> json],
                 [name |-> "txt_log", file |-> txt] >>,
              LAMBDA o : o.file.exists /\ o.file.size > 0)

\* Lines 541-552: the exit code in the metadata.
Meta(returncode) ==
    IF returncode # 0 THEN [k \in { "thor_exit_code" } |-> returncode] ELSE << >>

NoOutcome ==
    [kind |-> "none", error |-> "", exit_code |-> 0, output_files |-> << >>, meta |-> << >>]

Raised(error, exit_code) ==
    [kind |-> "error", error |-> error, exit_code |-> exit_code,
     output_files |-> << >>, meta |-> << >>]

TaskResult(output_files, meta) ==
    [kind |-> "result", error |-> "", exit_code |-> 0,
     output_files |-> output_files, meta |-> meta]

\* Lines 526-559
Classify(returncode, output_files) ==
    IF returncode # 0 /\ output_files = << >>
    THEN Raised("process_error", returncode)
    ELSE TaskResult(output_files, Meta(returncode))

\* What the fixed URL may serve for the rule bundle.
BundleMemberNames ==
    { RulePathA, RulePathSA, RulePathN,
      << ".", ".", "/", "e", "2", "/", "f" >> }   \* ../e2/f

Responses ==
    { NetworkError, NotAZip } \cup { Zip(a) : a \in BoundedSeqs(BundleMemberNames, MaxMembers) }

(***************************************************************************)
(* Inputs of a run: the input descriptors, what the scanner writes to its  *)
(* text log, the reports it leaves and its exit code.                      *)
(***************************************************************************)
Plain(path) == [path |-> path, exists |-> TRUE, zip |-> FALSE, members |-> << >>]

Archive(path, members) == [path |-> path, exists |-> TRUE, zip |-> TRUE, members |-> members]

PlainA == Plain(<< "/", "a", "/", "x" >>)                         \* /a/x
PlainB == Plain(<< "/", "b", "/", "x" >>)                         \* /b/x
MissingFile == [path |-> << "/", "a", "/", "m" >>, exists |-> FALSE,
                zip |-> FALSE, members |-> << >>]
NoPath == [path |-> << >>, exists |-> FALSE, zip |-> FALSE, members |-> << >>]
ZipPath == << "/", "a", "/", "z", ".", "z", "i", "p" >>            \* /a/z.zip
ZipEmpty == Archive(ZipPath, << >>)
ZipTwo == Archive(ZipPath, << << "a" >>, << "s", "/", "a" >> >>)
ZipEscape == Archive(ZipPath, << << ".", ".", "/", "x" >> >>)

\* An archive whose two members lie in one directory.
ZipNested == Archive(ZipPath, << << "s", "/", "a" >>, << "s", "/", "b" >> >>)
\* A plain file named as the extraction directory of /a/z.zip as first input.
PlainDirName == Plain(<< "/", "b", "/", "z", "i", "p", "_", "1", "_", "z" >>)

InputDescriptors ==
    { PlainA, PlainB, PlainDirName, MissingFile, NoPath, ZipEmpty, ZipTwo, ZipNested,
      ZipEscape }

InputLists == BoundedSeqs(InputDescriptors, MaxInputs)

\* The input lists of the runs followed through the scan.
RunInputLists ==
    { << >>, << MissingFile >>, << PlainA >>, << ZipEscape >>, << PlainA, ZipTwo >> }

\* What the URL serves in the runs followed through the scan.
RunResponses ==
    { NetworkError, NotAZip, Zip(<< RulePathA >>),
      Zip(<< RulePathA, << ".", ".", "/", "e", "2", "/", "f" >> >>) }

\* temp_dir of line 432
WorkDir == << "/", "o", "/", "w" >>

\* Whole lines and a line in the middle of being written, as the scanner
\* appends them to its text log.
LineHit == << "Y", "a", "r", "a", " ", "R", "u", "l", "e", NL >>
LinePartial == << "F", "I", "L", "E", ":" >>

RunLogLines == { LineHit, LinePartial }

\* Smaller writes, which split the marker between two reads.
TailChunks == { << "Y", "a", "r", "a", " " >>, << "r", "u", "l", "e", NL >>, << "x" >> }

ExitCodes == { 0, 2 }

ReportStates == { NoFile, File(0), File(1) }

NoWorkspace == [exists |-> FALSE, entries |-> {}]

NoProcess == [state |-> "none", returncode |-> 0]

NotFetched == [requested |-> FALSE, response |-> NetworkError]

(***************************************************************************)
(* The signature status probe (_get_signature_status).  A candidate file   *)
(* is missing, cannot be opened (OSError), cannot be decoded as UTF-8, or  *)
(* is read as text.  A Python value is a record of its type and its text.  *)
(***************************************************************************)
None == [type |-> "NoneType", val |-> << >>]

Str(s) == [type |-> "str", val |-> s]

IntValue(digits) == [type |-> "int", val |-> digits]

\* bool(value) for the values above.
Truthy(v) ==
    /\ v.type # "NoneType"
    /\ ~(v.type = "str" /\ v.val = << >>)
    /\ ~(v.type = "int" /\ v.val = << "0" >>)

\* a or b
Or(a, b) == IF Truthy(a) THEN a ELSE b

version_files ==
    << << "/", "t", "h", "o", "r", "-", "l", "i", "t", "e", "/", "s",
          "i", "g", "n", "a", "t", "u", "r", "e", "s", "/", "v", "e", "r",
          "s", "i", "o", "n", ".", "t", "x", "t" >>,
       << "/", "t", "h", "o", "r", "-", "l", "i", "t", "e", "/", "s",
          "i", "g", "n", "a", "t", "u", "r", "e", "s", "/", "v", "e", "r",
          "s", "i", "o", "n" >>,
       << "/", "t", "h", "o", "r", "-", "l", "i", "t", "e", "/", "s",
          "i", "g", "n", "a", "t", "u", "r", "e", "s", "/", "v", "e", "r",
          "s", "i", "o", "n", "s", ".", "t", "x", "t" >>,
       << "/", "t", "h", "o", "r", "-", "l", "i", "t", "e", "/", "s",
          "i", "g", "n", "a", "t", "u", "r", "e", "s", "/", "v", "e", "r",
          "s", "i", "o", "n", "s", ".", "j", "s", "o", "n" >>,
       << "/", "t", "h", "o", "r", "-", "l", "i", "t", "e", "/", "s",
          "i", "g", "n", "a", "t", "u", "r", "e", "s", "/", "s", "i", "g",
          "i", "n", "f", "o", ".", "t", "x", "t" >> >>

DotJson == << ".", "j", "s", "o", "n" >>

MissingCandidate == [state |-> "missing", content |-> << >>]

UnreadableCandidate == [state |-> "unreadable", content |-> << >>]

UndecodableCandidate == [state |-> "undecodable", content |-> << >>]

Readable(content) == [state |-> "readable", content |-> content]

\* Contents of the candidates.
TextBlank ==
    << " ", NL >>

TextV1 ==
    << "v", "1", NL, "x" >>

TextV2 ==
    << "v", "2" >>

JsonUnparsable ==
    << "{" >>

JsonNoKeys ==
    << "{", "}" >>

JsonVersion ==
    << "{", "\"", "v", "e", "r", "s", "i", "o", "n", "\"", ":", "\"",
       "7", "\"", "}" >>

JsonSignatureVersion ==
    << "{", "\"", "s", "i", "g", "n", "a", "t", "u", "r", "e", "_", "v",
       "e", "r", "s", "i", "o", "n", "\"", ":", "8", "}" >>

JsonEmptyVersion ==
    << "{", "\"", "v", "e", "r", "s", "i", "o", "n", "\"", ":", "\"",
       "\"", "}" >>

JsonArray ==
    << "[", "]" >>

JsonNull ==
    << "n", "u", "l", "l" >>

DecodeError == [kind |-> "JSONDecodeError", object |-> << >>]

NotAnObject == [kind |-> "value", object |-> << >>]

Object(fields) == [kind |-> "object", object |-> fields]

\* json.loads on the contents above.
JsonLoads(content) ==
    CASE content = JsonNoKeys -> Object(<< >>)
      [] content = JsonVersion -> Object([k \in { "version" } |-> Str(<< "7" >>)])
      [] content = JsonSignatureVersion ->
            Object([k \in { "signature_version" } |-> IntValue(<< "8" >>)])
      [] content = JsonEmptyVersion -> Object([k \in { "version" } |-> Str(<< >>)])
      [] content = JsonArray -> NotAnObject
      [] content = JsonNull -> NotAnObject
      [] OTHER -> DecodeError

\* dict.get
Get(object, key) == IF key \in DOMAIN object THEN object[key] ELSE None

UpdatedAt == "2024-01-01 00:00:00 UTC"

RECURSIVE VersionFrom(_, _, _)
\* The loop of lines 180-203 from candidate i on, with the version so far.
VersionFrom(files, i, version) ==
    IF i > Len(version_files)
    THEN [raised |-> "none", version |-> version]
    ELSE LET path == version_files[i]
             file == files[i]
             content == Strip(file.content)
         IN  IF file.state = "missing" THEN VersionFrom(files, i + 1, version)
             ELSE IF file.state = "unreadable" THEN VersionFrom(files, i + 1, version)
             ELSE IF file.state = "undecodable"
             THEN [raised |-> "UnicodeDecodeError", version |-> version]
             ELSE IF content = << >> THEN VersionFrom(files, i + 1, version)
             ELSE IF EndsWith(path, DotJson)
             THEN LET payload == JsonLoads(content)
                      found == Or(Or(Get(payload.object, "version"),
                                     Get(payload.object, "signature_version")),
                                  Get(payload.object, "signatures"))
                  IN  IF payload.kind = "JSONDecodeError"
                      THEN VersionFrom(files, i + 1, None)
                      ELSE IF payload.kind # "object"
                      THEN [raised |-> "AttributeError", version |-> version]
                      ELSE IF Truthy(found)
                      THEN [raised |-> "none", version |-> found]
                      ELSE VersionFrom(files, i + 1, found)
             ELSE LET first_line == Str(SplitLines(content)[1])
                  IN  IF Truthy(first_line)
                      THEN [raised |-> "none", version |-> first_line]
                      ELSE VersionFrom(files, i + 1, first_line)

\* What the probe may find at the candidates, in their order.
TextCandidates ==
    { MissingCandidate, UnreadableCandidate, UndecodableCandidate, Readable(TextBlank),
      Readable(TextV1) }

JsonCandidates ==
    { MissingCandidate, UnreadableCandidate, UndecodableCandidate, Readable(TextBlank),
      Readable(JsonUnparsable), Readable(JsonNoKeys), Readable(JsonVersion),
      Readable(JsonSignatureVersion), Readable(JsonEmptyVersion), Readable(JsonArray),
      Readable(JsonNull) }

CandidateFiles ==
    { << a, b, c, d, e >> :
        a \in TextCandidates, b \in { MissingCandidate, Readable(TextV1) },
        c \in { MissingCandidate, Readable(TextBlank) }, d \in JsonCandidates,
        e \in { MissingCandidate, UnreadableCandidate, Readable(TextBlank),
                Readable(TextV2) } }

NotProbed == [probed |-> FALSE, raised |-> "none", version |-> None, updated_at |-> ""]

\* _get_signature_status: updated_at "" stands for None.
_get_signature_status(files, dir_exists) ==
    LET r == VersionFrom(files, 1, None)
    IN  [raised |-> r.raised, version |-> r.version,
         updated_at |-> IF dir_exists THEN UpdatedAt ELSE ""]

(***************************************************************************)
(* State.                                                                  *)
(***************************************************************************)
\* The archive-safe extractor: its arguments and what the call did.
VARIABLES zip_file, destination, extract_result, extracted

\* The rule bundle manager: the bundle directory, the custom-rule
\* directories, the count the last flatten returned, the last operation and
\* the number of flatten runs since the bundle last changed.
VARIABLES yara_forge_dir, custom_dirs, flatten_count, rule_op, flatten_runs

exVars == << zip_file, destination, extract_result, extracted >>

ruleVars == << yara_forge_dir, custom_dirs, flatten_count, rule_op, flatten_runs >>

\* One run of thor: its position, the outcome of the signature update, the
\* fetch it made, its inputs, the workspace, the scanner process, the log
\* cursor and hit count, the pending exception and the outcome of the run.
VARIABLES pc, update_status, fetched, input_files, temp_dir, prepared_count,
          proc, log_offset, yara_hits, exc, outcome

\* What the scanner wrote: its text log, the number of writes, the reports.
VARIABLES txt_log, log_writes, html_report, json_log

\* The signature status probe: what is at the candidate locations, whether
\* the signature root exists, and what the probe returned or raised.
VARIABLES candidates, signatures_dir, signature_status

probeVars == << candidates, signatures_dir, signature_status >>

\* The summary of one log line: the line and what the call returned.
VARIABLES tail_line, line_summary

summaryVars == << tail_line, line_summary >>

\* Concurrent flattens: for each run, how far its flatten has come.
VARIABLES flatten_run

concVars == << flatten_run >>

\* The capture pipes of the scanner (stdout=PIPE, stderr=PIPE): the units
\* buffered in each pipe, and the units the scanner has yet to write to it.
VARIABLES capture, pending_output

pipeVars == << capture, pending_output >>

\* The state of the specifications of single functions, of concurrent runs
\* and of the capture pipes.
unitVars == << probeVars, summaryVars, concVars, pipeVars >>

runVars == << pc, update_status, fetched, input_files, temp_dir, prepared_count,
              proc, log_offset, yara_hits, exc, outcome >>

scanVars == << txt_log, log_writes, html_report, json_log >>

vars == << exVars, ruleVars, runVars, scanVars, unitVars >>

RunIdle ==
    /\ pc = "idle"
    /\ update_status = "pending"
    /\ fetched = NotFetched
    /\ input_files = << >>
    /\ temp_dir = NoWorkspace
    /\ prepared_count = 0
    /\ proc = NoProcess
    /\ log_offset = 0
    /\ yara_hits = 0
    /\ exc = ""
    /\ outcome = NoOutcome

ScanIdle ==
    /\ txt_log = NoLog
    /\ log_writes = 0
    /\ html_report = NoFile
    /\ json_log = NoFile

ProbeIdle ==
    /\ candidates = << >>
    /\ signatures_dir = FALSE
    /\ signature_status = NotProbed

SummaryIdle ==
    /\ tail_line = NoLine
    /\ line_summary = NotSummarized

\* The runs that may flatten at the same time.
Runs == { "run1", "run2" }

\* A run that has not called _flatten_yara_forge_rules.
IdleRun == [phase |-> "idle", dir |-> 0, listed |-> FALSE, listing |-> {}, todo |-> {},
            count |-> 0]

ConcIdle == flatten_run = [r \in Runs |-> IdleRun]

\* The streams of the scanner that thor captures.
Streams == { "stdout", "stderr" }

EmptyPipes == [s \in Streams |-> 0]

\* A scanner that writes nothing to its captured streams.
PipeIdle ==
    /\ capture = EmptyPipes
    /\ pending_output = EmptyPipes

UnitIdle == ProbeIdle /\ SummaryIdle /\ ConcIdle /\ PipeIdle

ExtractIdle ==
    /\ zip_file = << >>
    /\ destination = ExtractDir
    /\ extract_result = "idle"
    /\ extracted = {}

RulesIdle ==
    /\ yara_forge_dir = NoBundle
    /\ custom_dirs = [d \in CUSTOM_YARA_CLEAN_DIRS |-> {}]
    /\ flatten_count = 0
    /\ rule_op = "none"
    /\ flatten_runs = 0

(***************************************************************************)
(* Specification of the archive-safe extractor alone: one call of          *)
(* _safe_extract_zip on an arbitrary archive.                              *)
(***************************************************************************)
InitExtract ==
    /\ zip_file \in Archives
    /\ destination = ExtractDir
    /\ extract_result = "pending"
    /\ extracted = {}
    /\ RulesIdle
    /\ RunIdle
    /\ ScanIdle
    /\ UnitIdle

SafeExtractZip ==
    /\ extract_result = "pending"
    /\ LET r == _safe_extract_zip(zip_file, destination)
       IN  /\ extract_result' = IF r.raised THEN "path_traversal" ELSE "extracted"
           /\ extracted' = r.entries
    /\ UNCHANGED << zip_file, destination >>
    /\ UNCHANGED << ruleVars, runVars, scanVars, unitVars >>

NextExtract == SafeExtractZip

SpecExtract == InitExtract /\ [][NextExtract]_vars

(***************************************************************************)
(* C1.  _safe_extract_zip is fail-closed.  Either every member resolves to *)
(* the canonical destination or to a path below it, component by           *)
(* component (so that a sibling such as /t/e2 of /t/e does not count), and *)
(* then every member is extracted and lands at or below the destination;   *)
(* or some member does not, and then the call raises the path-traversal    *)
(* error and nothing at all is extracted.                                  *)
(***************************************************************************)
PathComps(path) == SelectSeq(Split(path, SEP), ValidPathPart)

IsPrefixSeq(p, s) == Len(p) <= Len(s) /\ SubSeq(s, 1, Len(p)) = p

\* path is dir or lies below dir, both absolute and normalised.
AtOrBelow(path, dir) == IsPrefixSeq(PathComps(dir), PathComps(path))

AllMembersInside ==
    \A i \in DOMAIN zip_file :
        AtOrBelow(MemberPath(AbsPath(destination), zip_file[i]), AbsPath(destination))

C1_FailClosed ==
    extract_result # "pending" /\ extract_result # "idle" =>
        \/ /\ AllMembersInside
           /\ extract_result = "extracted"
           /\ \A i \in DOMAIN zip_file :
                 \E e \in extracted : e.name = SanitizeArcname(zip_file[i])
           /\ \A e \in extracted : AtOrBelow(TargetPath(destination, e), destination)
        \/ /\ ~AllMembersInside
           /\ extract_result = "path_traversal"
           /\ extracted = {}

\* An archive with a safe member first and an escaping sibling-named member
\* after it was refused with nothing extracted.
C1_Witness ==
    /\ extract_result = "path_traversal"
    /\ Len(zip_file) = 2
    /\ zip_file[1] = << "a" >>
    /\ zip_file[2] = << ".", ".", "/", "e", "2", "/", "f" >>
    /\ extracted = {}

(***************************************************************************)
(* Specification of the rule bundle manager alone: fetches and flattens in *)
(* any order, from any bundle directory and any content of the custom-rule *)
(* directories an earlier flatten (of this or an older bundle) or the      *)
(* operator can have left.                                                 *)
(***************************************************************************)
StaleCopyNames == { DestName(RulePathZ), DestName(RulePathA), UserRuleName }

StaleCleanNames == { DestName(RulePathZ) }

\* Both copy directories hold what one earlier flatten left (it writes the
\* same names to both), the operator's rule file aside; the directories that
\* are only cleaned hold at most what an older layout left in them.
InitialCustomDirs ==
    { [d \in CUSTOM_YARA_CLEAN_DIRS |->
          IF d \in CUSTOM_YARA_DIRS THEN copied ELSE IF d = "/thor-lite/signatures/custom" THEN old ELSE {}] :
        copied \in SUBSET StaleCopyNames, old \in SUBSET StaleCleanNames }

InitialBundles == { NoBundle } \cup { Bundle(fs) : fs \in SUBSET BundlePaths }

InitRules ==
    /\ ExtractIdle
    /\ yara_forge_dir \in InitialBundles
    /\ custom_dirs \in InitialCustomDirs
    /\ flatten_count = 0
    /\ rule_op = "none"
    /\ flatten_runs = 0
    /\ RunIdle
    /\ ScanIdle
    /\ UnitIdle

\* thor, line 417 (and any later run's): one call of _flatten_yara_forge_rules.
FlattenRules ==
    /\ flatten_runs < MaxFlattenRuns
    /\ LET r == _flatten_yara_forge_rules(yara_forge_dir, custom_dirs)
       IN  /\ custom_dirs' = r.dirs
           /\ flatten_count' = r.count
    /\ rule_op' = "flatten"
    /\ flatten_runs' = flatten_runs + 1
    /\ UNCHANGED yara_forge_dir
    /\ UNCHANGED << exVars, runVars, scanVars, unitVars >>

\* thor, line 416 with _download_yara_forge set: one call of _download_yara_forge.
FetchRules ==
    /\ \E response \in Responses :
         LET r == _download_yara_forge(TRUE, response, yara_forge_dir, custom_dirs)
         IN  /\ yara_forge_dir' = r.forge
             /\ custom_dirs' = r.dirs
             /\ rule_op' = IF r.raised = "none" THEN "fetch_ok" ELSE r.raised
             /\ flatten_count' =
                  IF r.flattened
                  THEN _flatten_yara_forge_rules(r.forge, custom_dirs).count
                  ELSE flatten_count
             /\ flatten_runs' = IF r.flattened THEN 1 ELSE flatten_runs
    /\ UNCHANGED << exVars, runVars, scanVars, unitVars >>

NextRules == FlattenRules \/ FetchRules

SpecRules == InitRules /\ [][NextRules]_vars

\* The prefix-named files of a directory.
Flattened(names) == { n \in names : StartsWith(n, YARA_FORGE_PREFIX) }

\* The dest_names of the rule files of the bundle directory as it is.
BundleDestNames ==
    IF yara_forge_dir.exists
    THEN { DestName(f) : f \in { g \in yara_forge_dir.files : _is_yara_file(Basename(g)) } }
    ELSE {}

FlattenJustCompleted == rule_op \in { "flatten", "fetch_ok" }

(***************************************************************************)
(* C4.  After any flatten operation, every custom-rule directory rules are *)
(* copied to holds, among its prefix-named files, exactly the dest_names   *)
(* of the rule files of the current bundle directory, and the directories  *)
(* that are only cleaned hold none; with the bundle directory empty or     *)
(* missing no flattened file survives anywhere.                            *)
(***************************************************************************)
C4_FlattenConverges ==
    FlattenJustCompleted =>
        \A d \in CUSTOM_YARA_CLEAN_DIRS :
            Flattened(custom_dirs[d]) =
                IF d \in CUSTOM_YARA_DIRS THEN BundleDestNames ELSE {}

\* What the code does keep: with the bundle directory present, a flatten
\* converges to the bundle.
C4_ConvergesWhenBundleExists ==
    FlattenJustCompleted /\ yara_forge_dir.exists =>
        \A d \in CUSTOM_YARA_CLEAN_DIRS :
            Flattened(custom_dirs[d]) =
                IF d \in CUSTOM_YARA_DIRS THEN BundleDestNames ELSE {}

(***************************************************************************)
(* C10.  Flatten is idempotent: a flatten that directly follows a flatten  *)
(* (that of thor, or the one that ends a fetch) over the unchanged bundle  *)
(* leaves every custom-rule directory with the same file names and returns *)
(* the same count.                                                         *)
(***************************************************************************)
C10_FlattenIdempotent ==
    [][ (FlattenJustCompleted /\ rule_op' = "flatten" /\ flatten_runs' = flatten_runs + 1)
            => (custom_dirs' = custom_dirs /\ flatten_count' = flatten_count) ]_vars

\* A second flatten in a row has run over a bundle with two rule files that
\* share a file name, with an operator's rule file beside them.
C10_Witness ==
    /\ rule_op = "flatten"
    /\ flatten_runs = 2
    /\ flatten_count = 2
    /\ yara_forge_dir = Bundle({ RulePathA, RulePathSA })
    /\ \A d \in CUSTOM_YARA_DIRS :
         custom_dirs[d] = { DestName(RulePathA), DestName(RulePathSA), UserRuleName }

(***************************************************************************)
(* One run of thor.  The steps are the places where the run meets its      *)
(* environment: the update utility, the remote bundle, the inputs, the     *)
(* scanner process.  An exception raised inside the with blocks is kept in *)
(* exc while the context managers unwind (Popen.__exit__ waits for the     *)
(* process, TemporaryDirectory removes the workspace).                     *)
(***************************************************************************)
\* An update step that raises when the utility is missing or fails.
update_or_abort(requested, util_exists, util_returncode) ==
    IF ~requested THEN [raised |-> FALSE, status |-> "not_requested"]
    ELSE IF ~util_exists THEN [raised |-> TRUE, status |-> "skipped_util_missing"]
    ELSE IF util_returncode # 0 THEN [raised |-> TRUE, status |-> "failed"]
    ELSE [raised |-> FALSE, status |-> "complete"]

\* _update_signatures: status names the progress message of the branch taken
\* (none at lines 251-253, "skipped" at 256-262, "failed" at 271-283,
\* "complete" at 285); no branch raises.
_update_signatures(requested, util_exists, util_returncode) ==
    IF ~requested THEN [raised |-> FALSE, status |-> "not_requested"]
    ELSE IF ~util_exists THEN [raised |-> FALSE, status |-> "skipped_util_missing"]
    ELSE IF util_returncode # 0 THEN [raised |-> FALSE, status |-> "failed"]
    ELSE [raised |-> FALSE, status |-> "complete"]

\* thor, line 415: _update_signatures.
ThorUpdateSignatures ==
    /\ pc = "update_signatures"
    /\ \E requested \in BOOLEAN, util_exists \in BOOLEAN, util_returncode \in { 0, 1 } :
         LET r == _update_signatures(requested, util_exists, util_returncode)
         IN  /\ update_status' = r.status
             /\ pc' = IF r.raised THEN "done" ELSE "download"
             /\ outcome' = IF r.raised THEN Raised("update_failed", 0) ELSE outcome
    /\ UNCHANGED << fetched, input_files, temp_dir, prepared_count, proc, log_offset,
                    yara_hits, exc >>
    /\ UNCHANGED << exVars, ruleVars, scanVars, unitVars >>

\* The signature-update utility was run as a subprocess (line 265).
UpdaterLaunched == update_status \in { "failed", "complete" }

\* thor, line 416: _download_yara_forge; a RuntimeError ends the run.
ThorDownload ==
    /\ pc = "download"
    /\ \E requested \in BOOLEAN, response \in RunResponses :
         LET r == _download_yara_forge(requested, response, yara_forge_dir, custom_dirs)
         IN  /\ fetched' = IF requested
                           THEN [requested |-> TRUE, response |-> response]
                           ELSE NotFetched
             /\ yara_forge_dir' = r.forge
             /\ custom_dirs' = r.dirs
             /\ rule_op' = IF ~requested THEN rule_op
                           ELSE IF r.raised = "none" THEN "fetch_ok" ELSE r.raised
             /\ flatten_count' =
                  IF r.flattened
                  THEN _flatten_yara_forge_rules(r.forge, custom_dirs).count
                  ELSE flatten_count
             /\ flatten_runs' = IF r.flattened THEN 1 ELSE flatten_runs
             /\ IF r.raised # "none"
                THEN /\ outcome' = Raised(r.raised, 0)
                     /\ pc' = "done"
                ELSE /\ outcome' = outcome
                     /\ pc' = "flatten"
    /\ UNCHANGED << update_status, input_files, temp_dir, prepared_count, proc,
                    log_offset, yara_hits, exc >>
    /\ UNCHANGED << exVars, scanVars, unitVars >>

\* thor, lines 417-418: forge_count = _flatten_yara_forge_rules().
ThorFlatten ==
    /\ pc = "flatten"
    /\ LET r == _flatten_yara_forge_rules(yara_forge_dir, custom_dirs)
       IN  /\ custom_dirs' = r.dirs
           /\ flatten_count' = r.count
    /\ rule_op' = "flatten"
    /\ flatten_runs' = flatten_runs + 1
    /\ pc' = "prepare"
    /\ UNCHANGED yara_forge_dir
    /\ UNCHANGED << update_status, fetched, input_files, temp_dir, prepared_count, proc,
                    log_offset, yara_hits, exc, outcome >>
    /\ UNCHANGED << exVars, scanVars, unitVars >>

\* thor, lines 432-464: the workspace is created and the inputs prepared.
Prepare(lists) ==
    /\ pc = "prepare"
    /\ \E inputs \in lists :
         LET r == PrepareWorkspace(inputs)
         IN  /\ input_files' = inputs
             /\ temp_dir' = [exists |-> TRUE, entries |-> r.entries]
             /\ prepared_count' = r.prepared_count
             /\ exc' = IF r.raised = "none" THEN "" ELSE r.raised
             /\ pc' = IF r.raised = "none" THEN "launch" ELSE "teardown"
    /\ UNCHANGED << update_status, fetched, proc, log_offset, yara_hits, outcome >>
    /\ UNCHANGED << exVars, ruleVars, scanVars, unitVars >>

ThorPrepare == Prepare(RunInputLists)

\* thor, lines 479-488: subprocess.Popen, which may itself raise OSError.
ThorLaunch ==
    /\ pc = "launch"
    /\ \E started \in BOOLEAN :
         IF started
         THEN /\ proc' = [state |-> "running", returncode |-> 0]
              /\ log_offset' = 0
              /\ yara_hits' = 0
              /\ pc' = "poll"
              /\ exc' = exc
         ELSE /\ exc' = "launch_failed"
              /\ pc' = "teardown"
              /\ UNCHANGED << proc, log_offset, yara_hits >>
    /\ UNCHANGED << update_status, fetched, input_files, temp_dir, prepared_count, outcome >>
    /\ UNCHANGED << exVars, ruleVars, scanVars, unitVars >>

\* thor, lines 489-518: one evaluation of the loop condition.  While the
\* scanner runs, the body tails the log and reads nothing from the capture
\* pipes; an IndexError of the summary leaves the loop.  Once it has exited,
\* communicate reads the pipes, with TimeoutExpired when they are not at end
\* of file within the second (a descendant of the scanner holds them open),
\* and the Popen block is left.
ThorPoll ==
    /\ pc = "poll"
    /\ IF proc.state = "running"
       THEN LET last_line == _tail_last_line(txt_log)
                c == _consume_log_updates(txt_log, log_offset)
                log_summary == _summarize_log_line(last_line, MaxSummaryLen)
            IN  /\ log_offset' = c.offset
                /\ yara_hits' = yara_hits + c.added_hits
                /\ exc' = IF log_summary.raised THEN "index_error" ELSE exc
                /\ pc' = IF log_summary.raised THEN "popen_exit" ELSE "poll"
                /\ capture' = capture
       ELSE /\ \E pipes_closed \in BOOLEAN :
                 exc' = IF pipes_closed THEN exc ELSE "timeout_expired"
            /\ pc' = "teardown"
            /\ capture' = EmptyPipes
            /\ UNCHANGED << log_offset, yara_hits >>
    /\ UNCHANGED << update_status, fetched, input_files, temp_dir, prepared_count, proc,
                    outcome, pending_output >>
    /\ UNCHANGED << exVars, ruleVars, scanVars, probeVars, summaryVars, concVars >>

\* Popen.__exit__ on an exception (line 484): it waits for the process.
ThorPopenExit ==
    /\ pc = "popen_exit"
    /\ proc.state = "exited"
    /\ pc' = "teardown"
    /\ UNCHANGED << update_status, fetched, input_files, temp_dir, prepared_count, proc,
                    log_offset, yara_hits, exc, outcome >>
    /\ UNCHANGED << exVars, ruleVars, scanVars, unitVars >>

\* A clean-up that keeps the workspace when an exception passes through.
cleanup_unless_raised(workspace, pending) == IF pending # "" THEN workspace ELSE NoWorkspace

\* TemporaryDirectory.__exit__ (line 432): the workspace after the block.
Cleanup(workspace, pending) == NoWorkspace

\* thor, line 432: the with block of the workspace is left.
ThorTeardown ==
    /\ pc = "teardown"
    /\ temp_dir' = Cleanup(temp_dir, exc)
    /\ IF exc # ""
       THEN /\ outcome' = Raised(exc, 0)
            /\ pc' = "done"
       ELSE /\ outcome' = outcome
            /\ pc' = "collect"
    /\ UNCHANGED << update_status, fetched, input_files, prepared_count, proc, log_offset,
                    yara_hits, exc >>
    /\ UNCHANGED << exVars, ruleVars, scanVars, unitVars >>

\* The text log as an output artifact.
TxtLogFile == IF txt_log.exists THEN File(Len(txt_log.data)) ELSE NoFile

\* thor, lines 520-559.
ThorCollect ==
    /\ pc = "collect"
    /\ outcome' = Classify(proc.returncode, OutputFiles(html_report, json_log, TxtLogFile))
    /\ pc' = "done"
    /\ UNCHANGED << update_status, fetched, input_files, temp_dir, prepared_count, proc,
                    log_offset, yara_hits, exc >>
    /\ UNCHANGED << exVars, ruleVars, scanVars, unitVars >>

(***************************************************************************)
(* The scanner process (the command of lines 386-408).                     *)
(***************************************************************************)
Append_(log, bytes) == [exists |-> TRUE, data |-> log.data \o bytes]

\* It appends a line to its text log (--logfile).
ScannerLogs ==
    /\ proc.state = "running"
    /\ log_writes < MaxRunLines
    /\ \E line \in RunLogLines : txt_log' = Append_(txt_log, line)
    /\ log_writes' = log_writes + 1
    /\ UNCHANGED << html_report, json_log >>
    /\ UNCHANGED << exVars, ruleVars, runVars, unitVars >>

\* It appends part of a line to its text log.
ScannerAppends ==
    /\ proc.state = "running"
    /\ log_writes < MaxTailWrites
    /\ \E bytes \in TailChunks : txt_log' = Append_(txt_log, bytes)
    /\ log_writes' = log_writes + 1
    /\ UNCHANGED << html_report, json_log >>
    /\ UNCHANGED << exVars, ruleVars, runVars, unitVars >>

\* It exits, having written all its output and left its reports
\* (--htmlfile, --jsonfile) or not.
ScannerExits ==
    /\ proc.state = "running"
    /\ pending_output = EmptyPipes
    /\ \E returncode \in ExitCodes, html \in ReportStates, json \in ReportStates :
         /\ proc' = [state |-> "exited", returncode |-> returncode]
         /\ html_report' = html
         /\ json_log' = json
    /\ UNCHANGED << txt_log, log_writes >>
    /\ UNCHANGED << pc, update_status, fetched, input_files, temp_dir, prepared_count,
                    log_offset, yara_hits, exc, outcome >>
    /\ UNCHANGED << exVars, ruleVars, unitVars >>

(***************************************************************************)
(* Specification of a run of thor, from the call to its outcome.           *)
(***************************************************************************)
\* The rule directories a run may find: nothing installed, or the bundle of
\* an earlier fetch with its rule flattened.
InstalledRules ==
    { [forge |-> NoBundle, dirs |-> [d \in CUSTOM_YARA_CLEAN_DIRS |-> {}]],
      [forge |-> Bundle({ RulePathZ }),
       dirs |-> [d \in CUSTOM_YARA_CLEAN_DIRS |->
                    IF d \in CUSTOM_YARA_DIRS THEN { DestName(RulePathZ) } ELSE {}]] }

RunStart ==
    /\ pc = "update_signatures"
    /\ update_status = "pending"
    /\ fetched = NotFetched
    /\ input_files = << >>
    /\ temp_dir = NoWorkspace
    /\ prepared_count = 0
    /\ proc = NoProcess
    /\ log_offset = 0
    /\ yara_hits = 0
    /\ exc = ""
    /\ outcome = NoOutcome

Init ==
    /\ ExtractIdle
    /\ \E installed \in InstalledRules :
         /\ yara_forge_dir = installed.forge
         /\ custom_dirs = installed.dirs
    /\ flatten_count = 0
    /\ rule_op = "none"
    /\ flatten_runs = 0
    /\ RunStart
    /\ ScanIdle
    /\ UnitIdle

Next ==
    \/ ThorUpdateSignatures
    \/ ThorDownload
    \/ ThorFlatten
    \/ ThorPrepare
    \/ ThorLaunch
    \/ ThorPoll
    \/ ThorPopenExit
    \/ ThorTeardown
    \/ ThorCollect
    \/ ScannerLogs
    \/ ScannerExits

Spec == Init /\ [][Next]_vars

(***************************************************************************)
(* Specification of the runs over every bounded input list, with a scanner *)
(* that writes no text log.                                                *)
(***************************************************************************)
BuildWorkspace == Prepare(InputLists)

NextInputs ==
    \/ ThorUpdateSignatures
    \/ ThorDownload
    \/ ThorFlatten
    \/ BuildWorkspace
    \/ ThorLaunch
    \/ ThorPoll
    \/ ThorTeardown
    \/ ThorCollect
    \/ ScannerExits

SpecInputs == Init /\ [][NextInputs]_vars

(***************************************************************************)
(* Specification of the supervision loop alone: the scanner has just been  *)
(* launched on a prepared workspace and appends to its text log in writes  *)
(* that need not end at a line or at the end of a marker.                  *)
(***************************************************************************)
InitTail ==
    /\ ExtractIdle
    /\ RulesIdle
    /\ pc = "poll"
    /\ update_status = "not_requested"
    /\ fetched = NotFetched
    /\ input_files = << PlainA >>
    /\ temp_dir = [exists |-> TRUE, entries |-> PrepareWorkspace(<< PlainA >>).entries]
    /\ prepared_count = 1
    /\ proc = [state |-> "running", returncode |-> 0]
    /\ log_offset = 0
    /\ yara_hits = 0
    /\ exc = ""
    /\ outcome = NoOutcome
    /\ ScanIdle
    /\ UnitIdle

NextTail == ThorPoll \/ ScannerAppends \/ ScannerExits

SpecTail == InitTail /\ [][NextTail]_vars

(***************************************************************************)
(* Predicates shared by the claims about a run.                            *)
(***************************************************************************)
\* The inputs have been handed to the workspace builder.
PrepareEntered ==
    /\ pc \notin { "idle", "update_signatures", "download", "flatten", "prepare" }
    /\ ~(outcome.kind = "error" /\ outcome.error \in { "download_failed", "extract_failed" })

ScannerStarted == proc.state # "none"

RunEnded == pc = "done"

Returned == RunEnded /\ outcome.kind = "result"

FailedWith(error) == RunEnded /\ outcome.kind = "error" /\ outcome.error = error

\* Extraction directory of input i (line 452).
InputExtractDir(i) ==
    PathJoin(WorkDir, ExtractDirName(i, Basename(input_files[i].path)))

\* Input i is an archive with a member that resolves outside its extraction
\* directory.
EscapingArchive(i) ==
    /\ input_files[i].path # << >>
    /\ input_files[i].exists
    /\ input_files[i].zip
    /\ \E k \in DOMAIN input_files[i].members :
         ~AtOrBelow(MemberPath(InputExtractDir(i), input_files[i].members[k]),
                    InputExtractDir(i))

(***************************************************************************)
(* C2.  An input archive with a member that would escape its extraction    *)
(* directory aborts the run with the integrity error: nothing of that      *)
(* archive is in the workspace and the scanner is never launched.          *)
(***************************************************************************)
C2_EscapingInputAborts ==
    \A i \in DOMAIN input_files :
        PrepareEntered /\ EscapingArchive(i) /\ (\A j \in 1..(i - 1) : input_files[j] = PlainA) =>
            /\ ~ScannerStarted
            /\ \A e \in temp_dir.entries :
                 e.name = ExtractDirName(i, Basename(input_files[i].path)) => e.inside = {}
            /\ RunEnded => FailedWith("path_traversal")

(***************************************************************************)
(* C3.  Once the scanner has exited and the run has ended: with a non-zero *)
(* exit code and an output artifact that exists with size > 0 the run      *)
(* returned a TaskResult that holds every such artifact and has the exit   *)
(* code in its metadata; with a non-zero exit code and no such artifact it *)
(* raised the process error with the exit code; with exit code 0 it        *)
(* returned a TaskResult without an exit code in its metadata.             *)
(***************************************************************************)
Usable(file) == file.exists /\ file.size > 0

Artifacts ==
    (IF Usable(html_report) THEN { "html_report" } ELSE {})
        \cup (IF Usable(json_log) THEN { "json_log" } ELSE {})
        \cup (IF Usable(TxtLogFile) THEN { "txt_log" } ELSE {})

ResultNames == { outcome.output_files[i].name : i \in DOMAIN outcome.output_files }

ExitCodeClassified ==
    /\ proc.returncode # 0 /\ Artifacts # {} =>
         /\ outcome.kind = "result"
         /\ ResultNames = Artifacts
         /\ "thor_exit_code" \in DOMAIN outcome.meta
         /\ outcome.meta["thor_exit_code"] = proc.returncode
    /\ proc.returncode # 0 /\ Artifacts = {} =>
         /\ outcome.kind = "error"
         /\ outcome.error = "process_error"
         /\ outcome.exit_code = proc.returncode
    /\ proc.returncode = 0 =>
         /\ outcome.kind = "result"
         /\ ResultNames = Artifacts
         /\ "thor_exit_code" \notin DOMAIN outcome.meta

C3_ExitCodeClassified == RunEnded /\ proc.state = "exited" => ExitCodeClassified

\* What the code does keep: the classification is as stated in every run in
\* which no exception left the supervision loop.
C3_ClassifiedWhenLoopCompletes ==
    RunEnded /\ proc.state = "exited" /\ exc = "" => ExitCodeClassified

(***************************************************************************)
(* C5.  A fetch that was requested and whose download or extraction fails  *)
(* raises: the run ends with that error and the scanner is never launched. *)
(* The step that fails leaves the bundle directory and the custom-rule     *)
(* directories as they were, and the bundle directory changes only in a    *)
(* fetch whose download and extraction both succeeded.                     *)
(***************************************************************************)
BadResponse(response) ==
    \/ response.kind # "zip"
    \/ \E k \in DOMAIN response.names :
         ~AtOrBelow(MemberPath(ExtractDir, response.names[k]), ExtractDir)

FetchFailed == fetched.requested /\ BadResponse(fetched.response)

\* The step is a requested fetch that fails.
FetchFails == fetched'.requested /\ BadResponse(fetched'.response)

C5_FetchFailureLeavesBundle ==
    /\ [](FetchFailed =>
            /\ RunEnded
            /\ outcome.kind = "error"
            /\ outcome.error \in { "download_failed", "extract_failed" }
            /\ (outcome.error = "download_failed") = (fetched.response.kind = "network_error")
            /\ ~ScannerStarted)
    /\ [][ /\ FetchFails => UNCHANGED << yara_forge_dir, custom_dirs >>
           /\ yara_forge_dir' # yara_forge_dir => (fetched'.requested /\ ~FetchFails) ]_vars

\* The extraction of a bundle with a member outside the extraction directory
\* failed over an installed bundle, which is still there with its rule.
C5_Witness ==
    /\ FailedWith("extract_failed")
    /\ fetched.response = Zip(<< RulePathA, << ".", ".", "/", "e", "2", "/", "f" >> >>)
    /\ yara_forge_dir = Bundle({ RulePathZ })
    /\ \A d \in CUSTOM_YARA_DIRS : custom_dirs[d] = { DestName(RulePathZ) }
    /\ ~ScannerStarted

(***************************************************************************)
(* C7.  The workspace exists whenever the scanner runs (it is created      *)
(* before the launch and not removed before the scanner has terminated),   *)
(* it is gone when the run has ended, on every exit path, and the step     *)
(* that inspects the artifacts and classifies the exit code starts with    *)
(* the workspace already removed.                                          *)
(***************************************************************************)
Classified == outcome.kind = "result" \/ (outcome.kind = "error" /\ outcome.error = "process_error")

C7_WorkspaceLifetime ==
    /\ []((proc.state = "running" => temp_dir.exists) /\ (RunEnded => ~temp_dir.exists))
    /\ [][ /\ (~ScannerStarted /\ ScannerStarted') => temp_dir.exists
           /\ (temp_dir.exists /\ ~temp_dir'.exists) => proc.state # "running"
           /\ (~Classified /\ Classified') => ~temp_dir.exists ]_vars

\* The run ended on the failure of the final output read, after the scanner
\* had exited, with the workspace that held two inputs removed.
C7_Witness ==
    /\ FailedWith("timeout_expired")
    /\ proc.state = "exited"
    /\ input_files = << PlainA, ZipTwo >>
    /\ ~temp_dir.exists

(***************************************************************************)
(* C9.  Once the scanner is launched the supervisor polls for as long as   *)
(* the scanner has not exited, and a run whose scanner was launched ends   *)
(* with a returned TaskResult or with the fatal process error.             *)
(***************************************************************************)
C9_PollsUntilExitThenOneOutcome ==
    /\ proc.state = "running" => pc = "poll"
    /\ RunEnded /\ ScannerStarted => Returned \/ FailedWith("process_error")

\* What the code does keep: a run whose supervision loop raised nothing ends
\* with a TaskResult or the process error.
C9_OneOutcomeWhenLoopCompletes ==
    RunEnded /\ ScannerStarted /\ exc = "" => Returned \/ FailedWith("process_error")

(***************************************************************************)
(* C6, as the specification states it.  Whenever some input's path is      *)
(* missing or does not exist, or nothing at all is prepared, the run fails *)
(* with the input error before any subprocess is launched: no utility or   *)
(* scanner process was started and no TaskResult is returned.              *)
(***************************************************************************)
MissingInput(i) == input_files[i].path = << >> \/ ~input_files[i].exists

AnyMissing == \E i \in DOMAIN input_files : MissingInput(i)

\* Every input is an archive that leaves nothing in its extraction directory
\* (the empty list included).
NothingToScan ==
    \A i \in DOMAIN input_files :
        /\ ~MissingInput(i)
        /\ input_files[i].zip
        /\ \A k \in DOMAIN input_files[i].members :
             SanitizeArcname(input_files[i].members[k]) = << >>

InputError == FailedWith("input_missing") \/ FailedWith("no_inputs_prepared")

\* Workspace name of input i: the extraction directory or the link.
EntryName(i) ==
    IF input_files[i].zip THEN ExtractDirName(i, Basename(input_files[i].path))
    ELSE Basename(input_files[i].path)

\* Two inputs ahead of the first missing one have one workspace name.
ClashBeforeMissing ==
    \E i, j \in DOMAIN input_files :
        /\ i < j
        /\ \A k \in 1..j : ~MissingInput(k)
        /\ EntryName(i) = EntryName(j)

C6_WitnessNothingPrepared ==
    /\ FailedWith("no_inputs_prepared")
    /\ input_files = << ZipEmpty >>
    /\ prepared_count = 0
    /\ ~ScannerStarted

(***************************************************************************)
(* C8.  Over the reads of the supervision loop the log offset and the hit  *)
(* count never decrease, also while the log does not exist or has not      *)
(* grown; a read adds exactly the markers that lie within the bytes after  *)
(* the previous offset, so the hit count never exceeds the number of       *)
(* markers in the log read so far: no occurrence is counted twice.         *)
(***************************************************************************)
Markers(bytes) == Count(Lower(bytes), YaraRuleMarker)

C8_TailMonotone ==
    /\ [](/\ log_offset <= Len(txt_log.data)
          /\ yara_hits <= Markers(SubSeq(txt_log.data, 1, log_offset)))
    /\ [][ /\ log_offset' >= log_offset
           /\ yara_hits' >= yara_hits
           /\ yara_hits' - yara_hits
                = Markers(SubSeq(txt_log.data', log_offset + 1, log_offset')) ]_vars

\* Two markers were read, one of them whole in a later read and one split
\* between two reads: one hit is counted.
C8_Witness ==
    /\ log_offset = 20
    /\ Markers(txt_log.data) = 2
    /\ yara_hits = 1

(***************************************************************************)
(* C11.  A signature update that was requested and whose utility is        *)
(* missing, or runs and fails, does not abort the run.  The step emits its *)
(* message and changes nothing else: the run goes on to the fetch, the     *)
(* flatten, the workspace and the scan as after a step that was not        *)
(* requested, and no later step depends on how the update went.            *)
(***************************************************************************)
UpdateFell == update_status \in { "skipped_util_missing", "failed" }

C11_UpdateFailureContinues ==
    /\ [](UpdateFell /\ RunEnded =>
            ~(outcome.kind = "error" /\ outcome.error = "update_failed"))
    /\ [][ pc = "update_signatures" =>
             /\ pc' = "download"
             /\ update_status' \in { "not_requested", "skipped_util_missing", "failed",
                                     "complete" }
             /\ UNCHANGED << fetched, input_files, temp_dir, prepared_count, proc,
                             log_offset, yara_hits, exc, outcome, ruleVars, scanVars, unitVars >> ]_vars
    /\ [][ pc # "update_signatures" => update_status' = update_status ]_vars

\* The utility failed and the run went through the scan to a TaskResult.
C11_Witness ==
    /\ update_status = "failed"
    /\ Returned
    /\ proc.state = "exited"

\* The utility was missing and the run went through the scan to a TaskResult.
C11_WitnessUtilMissing ==
    /\ update_status = "skipped_util_missing"
    /\ Returned
    /\ proc.state = "exited"

(***************************************************************************)
(* Specification of the signature status probe on every bounded content of *)
(* the candidate locations.                                                *)
(***************************************************************************)
InitProbe ==
    /\ ExtractIdle
    /\ RulesIdle
    /\ RunIdle
    /\ ScanIdle
    /\ candidates \in CandidateFiles
    /\ signatures_dir \in BOOLEAN
    /\ signature_status = NotProbed
    /\ SummaryIdle
    /\ ConcIdle
    /\ PipeIdle

\* thor, lines 410, 426, 539: one call of _get_signature_status.
GetSignatureStatus ==
    /\ ~signature_status.probed
    /\ LET r == _get_signature_status(candidates, signatures_dir)
       IN  signature_status' = [probed |-> TRUE, raised |-> r.raised,
                                version |-> r.version, updated_at |-> r.updated_at]
    /\ UNCHANGED << candidates, signatures_dir >>
    /\ UNCHANGED << exVars, ruleVars, runVars, scanVars, summaryVars, concVars, pipeVars >>

NextProbe == GetSignatureStatus

SpecProbe == InitProbe /\ [][NextProbe]_vars

\* Candidate i exists and holds something besides white space.
NonEmpty(i) ==
    /\ candidates[i].state = "readable"
    /\ \E k \in DOMAIN candidates[i].content : candidates[i].content[k] \notin { " ", NL }

\* No candidate holds anything and the signature root does not exist.
NoSignal == ~signatures_dir /\ \A i \in DOMAIN candidates : ~NonEmpty(i)

(***************************************************************************)
(* C12.  The probe never raises: whatever is at the candidate locations    *)
(* (missing, empty, unreadable, undecodable, unparsable JSON, JSON that is *)
(* not an object) and whether or not the signature root exists, it returns *)
(* a status, and with no signal it returns no version and no updated_at.   *)
(***************************************************************************)
C12_ProbeNeverRaises ==
    signature_status.probed =>
        /\ signature_status.raised = "none"
        /\ NoSignal => signature_status.version = None /\ signature_status.updated_at = ""

\* What the code does keep: the probe raises only for a candidate that
\* cannot be decoded or for JSON that is not an object.
C12_RaisesOnlyOnBadContent ==
    signature_status.probed /\ signature_status.raised # "none" =>
        \E i \in DOMAIN candidates :
            \/ candidates[i].state = "undecodable"
            \/ candidates[i].content \in { JsonArray, JsonNull }

(***************************************************************************)
(* C13.  When the probe returns, the version is that of the first          *)
(* candidate, in the fixed order, that exists and is not empty, and of no  *)
(* later one: the first line of a text candidate, the first recognized key *)
(* of the JSON candidate, and none when the JSON candidate does not parse  *)
(* or has no recognized key.                                               *)
(***************************************************************************)
FirstNonEmpty == CHOOSE i \in DOMAIN candidates : NonEmpty(i) /\ \A j \in 1..(i - 1) : ~NonEmpty(j)

VersionOfFirstNonEmpty ==
    IF \A i \in DOMAIN candidates : ~NonEmpty(i) THEN None
    ELSE IF candidates[FirstNonEmpty].content = TextV1 THEN Str(<< "v", "1" >>)
    ELSE IF candidates[FirstNonEmpty].content = TextV2 THEN Str(<< "v", "2" >>)
    ELSE IF candidates[FirstNonEmpty].content = JsonVersion THEN Str(<< "7" >>)
    ELSE IF candidates[FirstNonEmpty].content = JsonSignatureVersion THEN IntValue(<< "8" >>)
    ELSE None

C13_VersionOfFirstCandidate ==
    signature_status.probed /\ signature_status.raised = "none" =>
        signature_status.version = VersionOfFirstNonEmpty

\* What the code does keep: the version is that of the first candidate that
\* yields one.
YieldsVersion(i) ==
    NonEmpty(i) /\ candidates[i].content \notin { JsonUnparsable, JsonNoKeys, JsonEmptyVersion }

C13_VersionOfFirstYield ==
    signature_status.probed /\ signature_status.raised = "none" =>
        \/ /\ \A i \in DOMAIN candidates : ~YieldsVersion(i)
           /\ signature_status.version = None
        \/ \E i \in DOMAIN candidates :
             /\ YieldsVersion(i)
             /\ \A j \in 1..(i - 1) : ~YieldsVersion(j)
             /\ signature_status.version.val =
                  CASE candidates[i].content = TextV1 -> << "v", "1" >>
                    [] candidates[i].content = TextV2 -> << "v", "2" >>
                    [] candidates[i].content = JsonVersion -> << "7" >>
                    [] OTHER -> << "8" >>

(***************************************************************************)
(* Specification of the flatten over bundles whose files are named alike:  *)
(* a bundle is installed, and the copy directories hold what the flatten   *)
(* of an earlier bundle left.                                              *)
(***************************************************************************)
NamedPaths == { RulePathA, RulePathSA, RulePathC1, RulePathC2, RulePathN }

InitNames ==
    /\ ExtractIdle
    /\ yara_forge_dir \in { Bundle(fs) : fs \in SUBSET NamedPaths }
    /\ \E copied \in SUBSET { DestName(RulePathZ), DestName(RulePathA), UserRuleName } :
         custom_dirs = [d \in CUSTOM_YARA_CLEAN_DIRS |->
                           IF d \in CUSTOM_YARA_DIRS THEN copied ELSE {}]
    /\ flatten_count = 0
    /\ rule_op = "none"
    /\ flatten_runs = 0
    /\ RunIdle
    /\ ScanIdle
    /\ UnitIdle

NextNames == FlattenRules

SpecNames == InitNames /\ [][NextNames]_vars

\* The rule files of the installed bundle.
RuleFiles == { f \in yara_forge_dir.files : _is_yara_file(Basename(f)) }

\* The files of a directory that carry the prefix.
PrefixNamed(d) == { n \in custom_dirs[d] : StartsWith(n, YARA_FORGE_PREFIX) }

(***************************************************************************)
(* C14.  After a flatten, no two rule files of the bundle with different   *)
(* relative paths have the same dest_name, and the count the flatten       *)
(* returned is the number of prefix-named files in each custom-rule        *)
(* directory it copies to.                                                 *)
(***************************************************************************)
C14_DestNamesDistinct ==
    rule_op = "flatten" =>
        /\ \A f, g \in RuleFiles : f # g => DestName(f) # DestName(g)
        /\ \A d \in CUSTOM_YARA_DIRS : flatten_count = Cardinality(PrefixNamed(d))

\* What the code does keep: the count is the number of rule files in the
\* bundle, and every one of them has its dest_name in each copy directory.
C14_CountsRuleFiles ==
    rule_op = "flatten" =>
        /\ flatten_count = Cardinality(RuleFiles)
        /\ \A d \in CUSTOM_YARA_DIRS : PrefixNamed(d) = { DestName(f) : f \in RuleFiles }

(***************************************************************************)
(* Predicates of the claims about what the preparation leaves.             *)
(***************************************************************************)
\* The preparation went through every input: none was missing and no call
\* on the workspace raised.
PreparedAll ==
    /\ PrepareEntered
    /\ ~AnyMissing
    /\ exc \notin { "input_missing", "file_exists" }

\* The members of archive i that extraction wrote into the workspace.
ExtractedMembers(i) ==
    { SanitizeArcname(input_files[i].members[k]) : k \in DOMAIN input_files[i].members }
        \ { << >> }

RECURSIVE MembersAndLinks(_)
\* Extracted members plus linked files of the first n inputs.
MembersAndLinks(n) ==
    IF n = 0 THEN 0
    ELSE MembersAndLinks(n - 1)
           + (IF input_files[n].zip THEN Cardinality(ExtractedMembers(n)) ELSE 1)

RECURSIVE TopLevelAndLinks(_)
\* Entries directly in the extraction directories plus linked files.
TopLevelAndLinks(n) ==
    IF n = 0 THEN 0
    ELSE TopLevelAndLinks(n - 1)
           + (IF input_files[n].zip
              THEN Cardinality({ Split(x, SEP)[1] : x \in ExtractedMembers(n) })
              ELSE 1)

(***************************************************************************)
(* C15.  After the preparation, prepared_count is the number of extracted  *)
(* archive members plus the number of linked plain files, and the          *)
(* zero-targets check fires exactly when that number is zero.              *)
(***************************************************************************)
C15_CountsMembersAndLinks ==
    PreparedAll =>
        /\ prepared_count = MembersAndLinks(Len(input_files))
        /\ (exc = "no_inputs_prepared") = (MembersAndLinks(Len(input_files)) = 0)

\* What the code does keep: prepared_count is the number of entries directly
\* in the extraction directories plus the linked files, and the check fires
\* exactly when nothing was extracted or linked.
C15_CountsTopLevelEntries ==
    PreparedAll =>
        /\ prepared_count = TopLevelAndLinks(Len(input_files))
        /\ (exc = "no_inputs_prepared") = (MembersAndLinks(Len(input_files)) = 0)

(***************************************************************************)
(* C19.  For an input list whose paths all exist the preparation does not  *)
(* fail on a name clash, and once it is through, every input is an entry   *)
(* of its own in the workspace.                                            *)
(***************************************************************************)
C19_NoNameClash ==
    PrepareEntered /\ ~AnyMissing =>
        /\ exc # "file_exists"
        /\ temp_dir.exists /\ exc = "" => Cardinality(temp_dir.entries) = Len(input_files)

\* What the code does keep: it fails so only when two inputs have one
\* workspace name, and otherwise every input is an entry of its own.
C19_ClashOnlyOnEqualNames ==
    PrepareEntered /\ ~AnyMissing =>
        /\ exc = "file_exists" =>
             \E i, j \in DOMAIN input_files : i < j /\ EntryName(i) = EntryName(j)
        /\ temp_dir.exists /\ exc = "" => Cardinality(temp_dir.entries) = Len(input_files)

(***************************************************************************)
(* Specification of the summary of one log line, on every bounded line.    *)
(***************************************************************************)
InitSummary ==
    /\ ExtractIdle
    /\ RulesIdle
    /\ RunIdle
    /\ ScanIdle
    /\ ProbeIdle
    /\ ConcIdle
    /\ PipeIdle
    /\ tail_line \in { NoLine } \cup { [none |-> FALSE, line |-> l] : l \in LogLines }
    /\ line_summary = NotSummarized

\* thor, line 495: one call of _summarize_log_line.
SummarizeLogLine ==
    /\ ~line_summary.done
    /\ LET r == _summarize_log_line(tail_line, MaxSummaryLen)
       IN  line_summary' = [done |-> TRUE, raised |-> r.raised, none |-> r.none,
                           summary |-> r.summary]
    /\ UNCHANGED tail_line
    /\ UNCHANGED << exVars, ruleVars, runVars, scanVars, probeVars, concVars, pipeVars >>

NextSummary == SummarizeLogLine

SpecSummary == InitSummary /\ [][NextSummary]_vars

(***************************************************************************)
(* C18.  The summary never fails and never exceeds the cap: for every log  *)
(* line the call returns without raising, and a summary it returns has at  *)
(* most 120 characters.                                                    *)
(***************************************************************************)
C18_SummaryNeverFails ==
    line_summary.done =>
        /\ ~line_summary.raised
        /\ Len(line_summary.summary) <= 120

\* Nothing but white space follows the first file marker of the line, once
\* the module and message parts are rewritten.
BareFileMarker ==
    /\ ~tail_line.none
    /\ LET summary == ModuleMessage(Strip(tail_line.line))
       IN  /\ Contains(summary, FILE_MARK)
           /\ \A k \in DOMAIN After(summary, FILE_MARK) :
                After(summary, FILE_MARK)[k] \in Whitespace

\* What the code does keep: the call raises only for a file marker with no
\* path after it, and no summary exceeds the cap.
C18_RaisesOnlyOnBareFileMarker ==
    line_summary.done =>
        /\ line_summary.raised = BareFileMarker
        /\ Len(line_summary.summary) <= 120

(***************************************************************************)
(* Specification of two runs that flatten at the same time.  The bundle is *)
(* in place and does not change; each step below is one system call of     *)
(* lines 142-151, and the steps of the two runs interleave freely.         *)
(***************************************************************************)
\* CUSTOM_YARA_CLEAN_DIRS and CUSTOM_YARA_DIRS in the order of the lists.
CleanOrder ==
    << "/thor-lite/signatures/custom", "/thor-lite/custom-signatures",
       "/thor-lite/signatures/custom/yara", "/thor-lite/custom-signatures/yara" >>

CopyOrder == << "/thor-lite/signatures/custom/yara", "/thor-lite/custom-signatures/yara" >>

\* The dest_name of every entry of file_entries.
DestNames(forge) == { e.dest_name : e \in FileEntries(forge) }

\* os.listdir at line 143, kept to the names the loop removes.
ListedForRemoval(names) == names \ CleanDir(names)

\* os.remove at line 146: FileNotFoundError when the name is gone.
Remove(names, name) ==
    IF name \in names THEN [raised |-> FALSE, names |-> names \ { name }]
    ELSE [raised |-> TRUE, names |-> names]

\* A copy that writes nothing.
copy_nothing(names, dest_name) == names

\* shutil.copy2 at line 151: the directory afterwards.
Copy2(names, dest_name) == names \cup { dest_name }

InitConcurrent ==
    /\ ExtractIdle
    /\ yara_forge_dir \in { Bundle({ RulePathA }), Bundle({ RulePathA, RulePathB }) }
    /\ \E flattened \in BOOLEAN, user \in SUBSET { UserRuleName } :
         custom_dirs = [d \in CUSTOM_YARA_CLEAN_DIRS |->
                           IF d \in CUSTOM_YARA_DIRS
                           THEN (IF flattened THEN DestNames(yara_forge_dir) ELSE {}) \cup user
                           ELSE {}]
    /\ flatten_count = 0
    /\ rule_op = "none"
    /\ flatten_runs = 0
    /\ RunIdle
    /\ ScanIdle
    /\ ProbeIdle
    /\ SummaryIdle
    /\ ConcIdle
    /\ PipeIdle

\* What a step of a flatten leaves alone, the directories and the run aside.
FlattenFrame ==
    /\ UNCHANGED << yara_forge_dir, flatten_count, rule_op, flatten_runs >>
    /\ UNCHANGED << exVars, runVars, scanVars, probeVars, summaryVars, pipeVars >>

\* Lines 128-141: the bundle is walked and the first directory is entered.
FlattenBegin(r) ==
    /\ flatten_run[r].phase = "idle"
    /\ flatten_run' =
         [flatten_run EXCEPT ![r] =
            IF ~yara_forge_dir.exists THEN [IdleRun EXCEPT !.phase = "done"]
            ELSE [IdleRun EXCEPT !.phase = "clean", !.dir = 1]]
    /\ UNCHANGED custom_dirs
    /\ FlattenFrame

\* Lines 142-143: os.makedirs, then os.listdir of the directory.
FlattenListDir(r) ==
    /\ flatten_run[r].phase = "clean"
    /\ ~flatten_run[r].listed
    /\ flatten_run' =
         [flatten_run EXCEPT
            ![r].listed = TRUE,
            ![r].listing = ListedForRemoval(custom_dirs[CleanOrder[flatten_run[r].dir]])]
    /\ UNCHANGED custom_dirs
    /\ FlattenFrame

\* Lines 144-146: the next listed name is removed; os.listdir gives the
\* names in no particular order.
FlattenRemove(r) ==
    /\ flatten_run[r].phase = "clean"
    /\ flatten_run[r].listed
    /\ \E name \in flatten_run[r].listing :
         LET d == CleanOrder[flatten_run[r].dir]
             res == Remove(custom_dirs[d], name)
         IN  /\ custom_dirs' = [custom_dirs EXCEPT ![d] = res.names]
             /\ flatten_run' =
                  [flatten_run EXCEPT
                     ![r].listing = @ \ { name },
                     ![r].phase = IF res.raised THEN "raised" ELSE @]
    /\ FlattenFrame

\* Lines 141 and 148: the listing is exhausted; the next directory is
\* entered, and after the last one the copy loop.
FlattenCleaned(r) ==
    /\ flatten_run[r].phase = "clean"
    /\ flatten_run[r].listed
    /\ flatten_run[r].listing = {}
    /\ flatten_run' =
         [flatten_run EXCEPT ![r] =
            IF flatten_run[r].dir < Len(CleanOrder)
            THEN [@ EXCEPT !.dir = @ + 1, !.listed = FALSE]
            ELSE [@ EXCEPT !.phase = "copy", !.dir = 1, !.listed = FALSE,
                           !.todo = DestNames(yara_forge_dir)]]
    /\ UNCHANGED custom_dirs
    /\ FlattenFrame

\* Lines 150-151: the next entry is copied; os.walk gives the entries in
\* no particular order.
FlattenCopy(r) ==
    /\ flatten_run[r].phase = "copy"
    /\ \E dest_name \in flatten_run[r].todo :
         LET d == CopyOrder[flatten_run[r].dir]
         IN  /\ custom_dirs' = [custom_dirs EXCEPT ![d] = Copy2(@, dest_name)]
             /\ flatten_run' = [flatten_run EXCEPT ![r].todo = @ \ { dest_name }]
    /\ FlattenFrame

\* Lines 148 and 153: the entries are exhausted; the next directory is
\* entered, and after the last one the count is returned.
FlattenCopied(r) ==
    /\ flatten_run[r].phase = "copy"
    /\ flatten_run[r].todo = {}
    /\ flatten_run' =
         [flatten_run EXCEPT ![r] =
            IF flatten_run[r].dir < Len(CopyOrder)
            THEN [@ EXCEPT !.dir = @ + 1, !.todo = DestNames(yara_forge_dir)]
            ELSE [@ EXCEPT !.phase = "done",
                           !.count = Cardinality(FileEntries(yara_forge_dir))]]
    /\ UNCHANGED custom_dirs
    /\ FlattenFrame

NextConcurrent ==
    \E r \in Runs :
        \/ FlattenBegin(r)
        \/ FlattenListDir(r)
        \/ FlattenRemove(r)
        \/ FlattenCleaned(r)
        \/ FlattenCopy(r)
        \/ FlattenCopied(r)

SpecConcurrent == InitConcurrent /\ [][NextConcurrent]_vars

\* Some custom-rule directory lacks a dest_name of the bundle.
MissingDestName ==
    \E d \in CUSTOM_YARA_DIRS : \E n \in DestNames(yara_forge_dir) : n \notin custom_dirs[d]

Started(r) == flatten_run[r].phase # "idle"

(***************************************************************************)
(* C16.  Flatten is not safe under concurrency.  A run completes its       *)
(* flatten while a custom-rule directory lacks a dest_name of the bundle,  *)
(* and a flatten raises FileNotFoundError, in interleavings of two runs    *)
(* (the witnesses), and in those only: a completed flatten leaves a        *)
(* dest_name out only while the other run is in its flatten or has raised  *)
(* in it, and a flatten raises only once the other run has begun its own.  *)
(***************************************************************************)
C16_UnsafeWhenInterleaved ==
    \A r \in Runs :
        /\ flatten_run[r].phase = "done" /\ MissingDestName =>
              \E o \in Runs \ { r } : flatten_run[o].phase \in { "clean", "copy", "raised" }
        /\ flatten_run[r].phase = "raised" => \E o \in Runs \ { r } : Started(o)

\* One run has completed its flatten and a directory lacks a dest_name.
C16_Witness ==
    \E r \in Runs :
        /\ flatten_run[r].phase = "done"
        /\ flatten_run[r].count = Cardinality(DestNames(yara_forge_dir))
        /\ MissingDestName

\* A flatten raised on a name the other run removed after it was listed.
C16_WitnessRaises == \E r \in Runs : flatten_run[r].phase = "raised"

\* The gap stays for good: one run completed, the other raised.
C16_WitnessGapStays ==
    /\ \E r \in Runs : flatten_run[r].phase = "done"
    /\ \E r \in Runs : flatten_run[r].phase = "raised"
    /\ MissingDestName

(***************************************************************************)
(* Specification of the supervision of a scanner that writes to its        *)
(* captured streams: every amount of output up to MaxOutput units on each  *)
(* stream, into pipes of PipeCapacity units.                               *)
(***************************************************************************)
InitPipes ==
    /\ ExtractIdle
    /\ RulesIdle
    /\ pc = "poll"
    /\ update_status = "not_requested"
    /\ fetched = NotFetched
    /\ input_files = << PlainA >>
    /\ temp_dir = [exists |-> TRUE, entries |-> PrepareWorkspace(<< PlainA >>).entries]
    /\ prepared_count = 1
    /\ proc = [state |-> "running", returncode |-> 0]
    /\ log_offset = 0
    /\ yara_hits = 0
    /\ exc = ""
    /\ outcome = NoOutcome
    /\ ScanIdle
    /\ ProbeIdle
    /\ SummaryIdle
    /\ ConcIdle
    /\ capture = EmptyPipes
    /\ pending_output \in [Streams -> 0..MaxOutput]

\* write(2) on a pipe: a unit goes into the pipe when it has room; the
\* call blocks while the pipe is full.
ScannerWrites ==
    /\ proc.state = "running"
    /\ \E s \in Streams :
         /\ pending_output[s] > 0
         /\ capture[s] < PipeCapacity
         /\ capture' = [capture EXCEPT ![s] = @ + 1]
         /\ pending_output' = [pending_output EXCEPT ![s] = @ - 1]
    /\ UNCHANGED << exVars, ruleVars, runVars, scanVars, probeVars, summaryVars, concVars >>

NextPipes == ThorPoll \/ ScannerWrites \/ ScannerExits

SpecPipes == InitPipes /\ [][NextPipes]_vars

\* The scanner has output left and every stream it has output for is full.
ScannerBlocked ==
    /\ proc.state = "running"
    /\ pending_output # EmptyPipes
    /\ \A s \in Streams : pending_output[s] > 0 => capture[s] = PipeCapacity

(***************************************************************************)
(* C17.  The supervisor never blocks the caller on a scanner that would    *)
(* finish on its own: the scanner is never blocked writing to a full       *)
(* capture pipe while the supervisor polls for its exit.                   *)
(***************************************************************************)
C17_NeverBlockedOnFullPipe == ~(ScannerBlocked /\ pc = "poll")

\* What the code does: once the scanner is blocked on a full pipe, the
\* supervisor polls and the scanner stays blocked in every step that follows.
C17_BlockedForGood ==
    [][ScannerBlocked /\ pc = "poll" =>
          /\ pc' = "poll"
          /\ proc' = proc
          /\ capture' = capture
          /\ pending_output' = pending_output]_vars

\* The final read is bounded: after the exit one step reads the pipes and
\* leaves the Popen block, with TimeoutExpired or without.
C17_FinalReadBounded ==
    [][pc = "poll" /\ proc.state = "exited" =>
          /\ pc' = "teardown"
          /\ capture' = EmptyPipes
          /\ exc' \in { exc, "timeout_expired" }]_vars

=============================================================================
